---- MODULE Spec2Model ----
(***************************************************************************)
(* A model of pretrained/hubert.py: the HuBERT encoder (feature extractor, *)
(* positional embedding, the two encoder stacks with early exit), the      *)
(* model assembly (Hubert.forward, set_output_layer, remove_weight_norm_)  *)
(* and the predictor (predict, predict_in_chunks, predict_file).           *)
(*                                                                         *)
(* Tensors are abstracted to their shape and provenance: a waveform is an  *)
(* offset/length window of the caller's samples together with the scope of *)
(* the pre-normalization applied to it; a hidden state is the list of      *)
(* operations applied to it.  Two hidden states are equal in the model     *)
(* exactly when the same operations were applied to the same input.        *)
(* Dropout is the identity in eval mode and is left out.                   *)
(***************************************************************************)
EXTENDS Integers, Sequences, FiniteSets, TLC

VARIABLES
    config,       \* HubertConfig: the fields the modelled code reads
    layers,       \* Hubert.encoder.layers: the original indices of the layers kept
    weight_norm,  \* pos_conv_embed.conv still carries its weight-norm hook
    predictor,    \* the HubertPredictor bound to the model (built, kmeans)
    call          \* the call that just returned: its arguments, its steps, its result

vars == <<config, layers, weight_norm, predictor, call>>

(***************************************************************************)
(* Bounds of the model.                                                    *)
(***************************************************************************)
\* Largest waveform length (samples) of the small-schedule specifications.
MaxSamples == 15
\* Largest waveform length of the specification over the pretrained schedule.
MaxTsz == 1300
\* Largest num_hidden_layers of the output-layer resolution specification.
MaxLayers == 12
\* num_hidden_layers of the models of the pipeline specifications.
SmallLayers == 3
\* Denominator of the float output_layer arguments (f = num / FracDen).
FracDen == 4
\* Float output_layer arguments range over -MaxFracNum/FracDen .. MaxFracNum/FracDen.
MaxFracNum == 5
\* Largest number of cluster centers of a bound KMeans model.
MaxCenters == 2
\* Largest number of chunks the audio reader yields in predict_file.
MaxReads == 2
\* Largest hidden_size, num_attention_heads and num_hidden_layers of the
\* configurations a model is constructed from.
MaxHidden == 6
MaxHeads == 4
MaxBuildLayers == 2
\* Largest num_conv_pos_embeddings, and largest waveform length, of the
\* positional-embedding specification.
MaxPosKernel == 12
MaxPosSamples == 40

(***************************************************************************)
(* Program constants.                                                      *)
(***************************************************************************)
\* The only sample rate Hubert.forward accepts; HubertPredictor.sample_rate.
HubertSampleRate == 16000
\* A sample rate that is not 16 kHz.
OtherSampleRate == 8000
\* The default --tsz of test_hubert_adhoc.
DefaultTsz == 22400
\* num_conv_pos_embeddings of every pretrained configuration.
PretrainedPosKernel == 128

\* conv_kernel and conv_stride of every pretrained configuration.
PretrainedConvKernel == <<10, 3, 3, 3, 3, 2, 2>>
PretrainedConvStride == <<5, 2, 2, 2, 2, 2, 2>>
\* hidden_size and num_attention_heads of the "base" configuration.
BaseHiddenSize == 768
BaseHeads == 12
\* A two-stage schedule, a HubertConfig the small specifications construct.
SmallConvKernel == <<3, 2>>
SmallConvStride == <<2, 2>>
\* hidden_size and num_attention_heads of the small models.
SmallHiddenSize == 4
SmallHeads == 2

(***************************************************************************)
(* output_layer arguments: None, an int, or a float num / den.             *)
(***************************************************************************)
NoneLayer == [kind |-> "none", num |-> 0, den |-> 1]
IntLayer(k) == [kind |-> "int", num |-> k, den |-> 1]
FloatLayer(n, d) == [kind |-> "float", num |-> n, den |-> d]

\* A mutant of PyRound: truncation toward minus infinity (int(floor(x))).
PyRoundFloor(a, b) == a \div b

\* Python's round(a / b) for b > 0: to the nearest integer, ties to the even one.
PyRound(a, b) ==
    LET fl == a \div b
        r  == a % b
    IN  IF 2 * r < b THEN fl
        ELSE IF 2 * r > b THEN fl + 1
        ELSE IF fl % 2 = 0 THEN fl ELSE fl + 1

\* A mutant of normalize_output_layer: the index is resolved against the
\* configured num_hidden_layers, not against the length it is given.
NormalizeAgainstConfigured(output_layer, num_layers) ==
    IF output_layer.kind = "none"
    THEN [err |-> FALSE, none |-> TRUE, idx |-> 0]
    ELSE LET n  == config.num_hidden_layers
             k0 == IF output_layer.kind = "float"
                   THEN PyRound(output_layer.num * n, output_layer.den)
                   ELSE output_layer.num
             k1 == IF k0 < 0 THEN k0 + n ELSE k0
         IN  IF ~(0 <= k1 /\ k1 < n)
             THEN [err |-> TRUE, none |-> FALSE, idx |-> k1]
             ELSE [err |-> FALSE, none |-> FALSE, idx |-> k1]

\* normalize_output_layer: [err, none, idx]; err is the ValueError.
normalize_output_layer(output_layer, num_layers) ==
    IF output_layer.kind = "none"
    THEN [err |-> FALSE, none |-> TRUE, idx |-> 0]
    ELSE LET k0 == IF output_layer.kind = "float"
                   THEN PyRound(output_layer.num * num_layers, output_layer.den)
                   ELSE output_layer.num
             k1 == IF k0 < 0 THEN k0 + num_layers ELSE k0
         IN  IF ~(0 <= k1 /\ k1 < num_layers)
             THEN [err |-> TRUE, none |-> FALSE, idx |-> k1]
             ELSE [err |-> FALSE, none |-> FALSE, idx |-> k1]

(***************************************************************************)
(* Steps of a call, in the order the code performs them.                   *)
(***************************************************************************)
Ev(name, a, b) == [ev |-> name, a |-> a, b |-> b]

\* A waveform tensor: rows x len samples starting at sample off of the
\* caller's input; nlen >= 0 when F.layer_norm was applied over the window
\* of nlen samples starting at noff, nlen = -1 when it was not.
Tensor(rows, off, len) == [rows |-> rows, off |-> off, len |-> len, noff |-> 0, nlen |-> -1]

\* F.layer_norm(x, x.shape): statistics over the whole of x.
LayerNormWave(x) == [x EXCEPT !.noff = x.off, !.nlen = x.len]

Min(a, b) == IF a < b THEN a ELSE b

\* A mutant of SliceWave: the slice is not clipped at the end of the waveform.
SliceWaveUnclipped(x, start, chunk_size) ==
    [x EXCEPT !.off = x.off + start, !.len = chunk_size]

\* x[:, start : start + chunk_size] (Python slicing clips at the end).
SliceWave(x, start, chunk_size) ==
    [x EXCEPT !.off = x.off + start, !.len = Min(chunk_size, x.len - start)]

(***************************************************************************)
(* The encoder.  A forward pass returns [err, ev, T]: err = "" on success, *)
(* otherwise the exception raised; ev the steps performed up to there; T   *)
(* the time length of the output.                                          *)
(***************************************************************************)
\* A mutant of ConvOutLen: the output length of a ceiling-mode convolution.
ConvOutLenCeil(len, kernel, stride) == ((len - kernel + stride - 1) \div stride) + 1

\* nn.Conv1d without padding: floor((len - kernel) / stride) + 1 output
\* steps; an input shorter than the kernel raises RuntimeError.
ConvOutLen(len, kernel, stride) == ((len - kernel) \div stride) + 1

\* HubertFeatureEncoder.forward: the conv layers i .. n in sequence.
RECURSIVE FeatureEncoder(_, _, _, _, _)
FeatureEncoder(kernel, stride, i, len, ev) ==
    IF i > Len(kernel) THEN [err |-> "", ev |-> ev, T |-> len]
    ELSE IF len < kernel[i]
    THEN [err |-> "RuntimeError:conv", ev |-> ev, T |-> 0]
    ELSE LET out == ConvOutLen(len, kernel[i], stride[i])
         IN  FeatureEncoder(kernel, stride, i + 1, out, Append(ev, Ev("conv", i - 1, out)))

\* A mutant of NumPadRemove: nothing is trimmed.
NumPadRemoveNever(num_conv_pos_embeddings) == 0

\* HubertSamePadLayer.__init__: num_pad_remove.
NumPadRemove(num_conv_pos_embeddings) ==
    IF num_conv_pos_embeddings % 2 = 0 THEN 1 ELSE 0

\* HubertPositionalConvEmbedding.forward: the time length after the padded
\* convolution (padding k // 2 on both sides) and the same-pad trim.
PosConvEmbedLen(T, k) ==
    LET conv == T + 2 * (k \div 2) - k + 1
    IN  conv - NumPadRemove(k)

\* A mutant of LayerLoop: the early exit is tested before the layer runs.
RECURSIVE LayerLoopBreakFirst(_, _, _, _, _)
LayerLoopBreakFirst(stack, i, idx, causal, ev) ==
    IF i >= Len(stack) THEN ev
    ELSE IF idx # -1 /\ i = idx THEN ev
    ELSE LayerLoopBreakFirst(stack, i + 1, idx, causal,
             Append(ev, Ev("layer", stack[i + 1], IF causal THEN 1 ELSE 0)))

\* for i, layer in enumerate(self.layers): ...; break at i == output_layer.
\* stack holds the original index of each remaining layer; position i is
\* 0-based as in the code.  idx = -1 stands for output_layer None.
RECURSIVE LayerLoop(_, _, _, _, _)
LayerLoop(stack, i, idx, causal, ev) ==
    IF i >= Len(stack) THEN ev
    ELSE LET ev1 == Append(ev, Ev("layer", stack[i + 1], IF causal THEN 1 ELSE 0))
         IN  IF idx # -1 /\ i = idx THEN ev1
             ELSE LayerLoop(stack, i + 1, idx, causal, ev1)

\* HubertEncoder.forward (post-norm stack): positional embedding, add,
\* layer_norm, then the layer loop.
HubertEncoderForward(cfg, stack, T, causal, output_layer, ev) ==
    LET P    == PosConvEmbedLen(T, cfg.num_conv_pos_embeddings)
        ev1  == Append(ev, Ev("pos_conv_embed", T, P))
    IN  IF P # T THEN [err |-> "RuntimeError:shape", ev |-> ev1, T |-> 0]
        ELSE LET ev2 == Append(ev1, Ev("layer_norm", 0, 0))
                 ol  == normalize_output_layer(output_layer, Len(stack))
             IN  IF ol.err THEN [err |-> "ValueError", ev |-> ev2, T |-> 0]
                 ELSE [err |-> "",
                       ev  |-> LayerLoop(stack, 0, IF ol.none THEN -1 ELSE ol.idx, causal, ev2),
                       T   |-> T]

\* HubertEncoderStableLayerNorm.forward: positional embedding, add, the
\* layer loop, then layer_norm.
HubertEncoderStableLayerNormForward(cfg, stack, T, causal, output_layer, ev) ==
    LET P    == PosConvEmbedLen(T, cfg.num_conv_pos_embeddings)
        ev1  == Append(ev, Ev("pos_conv_embed", T, P))
    IN  IF P # T THEN [err |-> "RuntimeError:shape", ev |-> ev1, T |-> 0]
        ELSE LET ol == normalize_output_layer(output_layer, Len(stack))
             IN  IF ol.err THEN [err |-> "ValueError", ev |-> ev1, T |-> 0]
                 ELSE [err |-> "",
                       ev  |-> Append(LayerLoop(stack, 0, IF ol.none THEN -1 ELSE ol.idx, causal, ev1),
                                      Ev("layer_norm", 0, 0)),
                       T   |-> T]

\* A mutant of EncoderForward: the post-norm stack whatever the configuration.
EncoderForwardPostNorm(cfg, stack, T, causal, output_layer, ev) ==
    HubertEncoderForward(cfg, stack, T, causal, output_layer, ev)

\* Hubert.__init__ picks the stack from config.do_stable_layer_norm.
EncoderForward(cfg, stack, T, causal, output_layer, ev) ==
    IF cfg.do_stable_layer_norm
    THEN HubertEncoderStableLayerNormForward(cfg, stack, T, causal, output_layer, ev)
    ELSE HubertEncoderForward(cfg, stack, T, causal, output_layer, ev)

\* A mutant of SampleRateOk: the guard is missing.
SampleRateUnchecked(sample_rate) == TRUE

\* The sample-rate guard of Hubert.forward.
SampleRateOk(sample_rate) == sample_rate = HubertSampleRate

\* Hubert.forward on the waveform tensor x.
HubertForward(cfg, stack, x, sample_rate, causal, output_layer) ==
    IF ~SampleRateOk(sample_rate)
    THEN [err |-> "RuntimeError:sample_rate", ev |-> <<>>, T |-> 0]
    ELSE LET fe == FeatureEncoder(cfg.conv_kernel, cfg.conv_stride, 1, x.len, <<>>)
         IN  IF fe.err # "" THEN fe
             ELSE EncoderForward(cfg, stack, fe.T, causal, output_layer,
                                 Append(fe.ev, Ev("feature_projection", fe.T, cfg.hidden_size)))

\* The transformer layers a forward pass applied, in order (original indices).
LayersApplied(ev) ==
    LET L == SelectSeq(ev, LAMBDA e : e.ev = "layer")
    IN  [i \in 1..Len(L) |-> L[i].a]

(***************************************************************************)
(* The predictor.  An entry point returns [err, ev, out, batched]: out is  *)
(* the result along the time axis, one frame per timestep; a frame records *)
(* the waveform window it was computed from, its index in that window's    *)
(* output, the layers applied and the cluster index (-1: not quantized).   *)
(***************************************************************************)
\* The (1, T, D) output of Hubert.forward on x.
Features(x, fwd) ==
    [t \in 1..fwd.T |-> [x |-> x, t |-> t, layers |-> LayersApplied(fwd.ev), q |-> -1]]

\* KMeans.forward (ml.models.kmeans, outside this repository): the index of
\* the nearest of the model's centers for every timestep.  answers[base + t]
\* is the center nearest to frame t; the action draws it from 0 .. C - 1.
KMeansForward(feat, answers, base) ==
    [t \in 1..Len(feat) |-> [feat[t] EXCEPT !.q = answers[base + t]]]

\* A mutant of TorchCat: the list is joined back to front.
RECURSIVE TorchCatReversed(_)
TorchCatReversed(feat) ==
    IF Len(feat) = 0 THEN <<>> ELSE TorchCatReversed(Tail(feat)) \o Head(feat)

\* torch.cat(feat, 1): the chunk outputs joined along time in list order;
\* an empty list raises (handled by the callers).
RECURSIVE TorchCat(_)
TorchCat(feat) ==
    IF Len(feat) = 0 THEN <<>> ELSE Head(feat) \o TorchCat(Tail(feat))

\* A mutant of KMeansBound: the quantizer is never applied.
KMeansNeverBound(kmeans) == FALSE

\* if self.kmeans is not None (kmeans = 0 stands for None).
KMeansBound(kmeans) == kmeans # 0

\* What follows the call of self.model.forward on x, given its result fwd: an
\* exception propagates; otherwise the quantizer is applied when one is
\* bound.  nout is the number of frames already produced by this call.
AfterForward(kmeans, x, answers, nout, fwd) ==
    LET ev1 == <<Ev("forward", x.off, x.len)>> \o fwd.ev
        ev2 == Append(ev1, Ev("forward_return", x.off, fwd.T))
    IN  IF fwd.err # "" THEN [err |-> fwd.err, ev |-> ev1, feat |-> <<>>]
        ELSE IF KMeansBound(kmeans)
        THEN [err |-> "", ev |-> Append(ev2, Ev("kmeans", fwd.T, kmeans)),
              feat |-> KMeansForward(Features(x, fwd), answers, nout)]
        ELSE [err |-> "", ev |-> ev2, feat |-> Features(x, fwd)]

\* The tail of predict, and of one iteration of the chunk loops: the model
\* forward on x, then the quantizer when one is bound.
ForwardAndQuantize(cfg, stack, kmeans, x, a, answers, nout) ==
    AfterForward(kmeans, x, answers, nout,
                 HubertForward(cfg, stack, x, a.sample_rate, a.causal, a.output_layer))

\* HubertPredictor.predict on a (1, len) waveform.
HubertPredictorPredict(cfg, stack, kmeans, len, a, answers) ==
    LET x == Tensor(1, 0, len)
        r == ForwardAndQuantize(cfg, stack, kmeans, x, a, answers, 0)
    IN  [err |-> r.err, ev |-> <<Ev("tensor_to", 0, len)>> \o r.ev,
         out |-> r.feat, batched |-> r.err = "", frames |-> Len(r.feat)]

\* A mutant of PreNormalizeWhole: the waveform is never normalized.
PreNormalizeSkipped(cfg, x, ev) == [x |-> x, ev |-> ev]

\* if self.model.pre_normalize: x = F.layer_norm(x, x.shape), on the whole
\* waveform, before the chunk loop of predict_in_chunks.
PreNormalizeWhole(cfg, x, ev) ==
    IF cfg.pre_normalize
    THEN [x |-> LayerNormWave(x), ev |-> Append(ev, Ev("layer_norm_wave", x.off, x.len))]
    ELSE [x |-> x, ev |-> ev]

\* The loop of predict_in_chunks: for start in range(0, x.size(1), chunk_size)
\* with chunk_size >= 1; feat is the list built so far.
RECURSIVE ChunkLoop(_, _, _, _, _, _, _, _, _, _)
ChunkLoop(cfg, stack, kmeans, x, start, chunk_size, a, answers, ev, feat) ==
    IF start >= x.len THEN [err |-> "", ev |-> ev, feat |-> feat]
    ELSE LET x_chunk == SliceWave(x, start, chunk_size)
             r == ForwardAndQuantize(cfg, stack, kmeans, x_chunk, a, answers,
                                     Len(TorchCat(feat)))
             ev1 == Append(ev, Ev("slice", x_chunk.off, x_chunk.len)) \o r.ev
         IN  IF r.err # "" THEN [err |-> r.err, ev |-> ev1, feat |-> feat]
             ELSE ChunkLoop(cfg, stack, kmeans, x, start + chunk_size, chunk_size, a, answers,
                            Append(ev1, Ev("cpu", x_chunk.off, Len(r.feat))),
                            Append(feat, r.feat))

\* torch.cat(feat, 1).squeeze(0), the return of both chunked entry points.
CatAndSqueeze(r) ==
    LET frames == Len(TorchCat(r.feat))
    IN  IF r.err # ""
        THEN [err |-> r.err, ev |-> r.ev, out |-> <<>>, batched |-> FALSE, frames |-> frames]
        ELSE IF Len(r.feat) = 0
        THEN [err |-> "RuntimeError:cat", ev |-> r.ev, out |-> <<>>, batched |-> FALSE,
              frames |-> 0]
        ELSE [err |-> "", ev |-> Append(r.ev, Ev("cat", Len(r.feat), frames)),
              out |-> TorchCat(r.feat), batched |-> FALSE, frames |-> frames]

\* HubertPredictor.predict_in_chunks on a (1, len) waveform.  range() raises
\* ValueError for a step of 0 and is empty for a negative step.
HubertPredictorPredictInChunks(cfg, stack, kmeans, len, chunk_size, a, answers) ==
    LET x0  == Tensor(1, 0, len)
        n   == PreNormalizeWhole(cfg, x0, <<Ev("tensor_to", 0, len)>>)
    IN  IF chunk_size = 0
        THEN [err |-> "ValueError:range", ev |-> n.ev, out |-> <<>>, batched |-> FALSE,
              frames |-> 0]
        ELSE IF chunk_size < 0
        THEN CatAndSqueeze([err |-> "", ev |-> n.ev, feat |-> <<>>])
        ELSE CatAndSqueeze(ChunkLoop(cfg, stack, kmeans, n.x, 0, chunk_size, a, answers,
                                     n.ev, <<>>))

\* A mutant of MonoOk: the assertion is missing.
MonoUnchecked(chans) == TRUE

\* assert chans == 1 in predict_file.
MonoOk(chans) == chans = 1

\* The loop of predict_file over the chunks the reader yields: chunks[i] is
\* the shape of chunk i after apply_effects_tensor, off the samples read before.
RECURSIVE FileLoop(_, _, _, _, _, _, _, _, _, _)
FileLoop(cfg, stack, kmeans, chunks, i, off, a, answers, ev, feat) ==
    IF i > Len(chunks) THEN [err |-> "", ev |-> ev, feat |-> feat]
    ELSE LET c   == chunks[i]
             ev1 == ev \o <<Ev("effects", off, c.len), Ev("mono_check", off, c.rows)>>
         IN  IF ~MonoOk(c.rows) THEN [err |-> "AssertionError", ev |-> ev1, feat |-> feat]
             ELSE LET x0  == Tensor(c.rows, off, c.len)
                      ev2 == Append(ev1, Ev("tensor_to", off, c.len))
                      x   == IF cfg.pre_normalize THEN LayerNormWave(x0) ELSE x0
                      ev3 == IF cfg.pre_normalize
                             THEN Append(ev2, Ev("layer_norm_wave", off, c.len)) ELSE ev2
                      r   == ForwardAndQuantize(cfg, stack, kmeans, x, a, answers,
                                                Len(TorchCat(feat)))
                  IN  IF r.err # "" THEN [err |-> r.err, ev |-> ev3 \o r.ev, feat |-> feat]
                      ELSE FileLoop(cfg, stack, kmeans, chunks, i + 1, off + c.len, a, answers,
                                    Append(ev3 \o r.ev, Ev("cpu", off, Len(r.feat))),
                                    Append(feat, r.feat))

\* HubertPredictor.predict_file: every forward is called with self.sample_rate.
HubertPredictorPredictFile(cfg, stack, kmeans, chunks, a, answers) ==
    CatAndSqueeze(FileLoop(cfg, stack, kmeans, chunks, 1, 0,
                           [a EXCEPT !.sample_rate = HubertSampleRate], answers, <<>>, <<>>))

(***************************************************************************)
(* State and operations.  Execution is single-threaded call and return: an *)
(* operation runs to completion and leaves its record in call; the caller  *)
(* takes the result (Return) before the next call.                         *)
(***************************************************************************)
\* HubertConfig(...), the fields read by the modelled code.
HubertConfig(n, hidden, heads, stable, prenorm, kernel, stride, pos) ==
    [num_hidden_layers |-> n, hidden_size |-> hidden, num_attention_heads |-> heads,
     do_stable_layer_norm |-> stable, pre_normalize |-> prenorm,
     conv_kernel |-> kernel, conv_stride |-> stride, num_conv_pos_embeddings |-> pos]

\* pretrained_hubert: the "base", "large" and "extra_large" configurations.
PretrainedConfigs ==
    { HubertConfig(12, BaseHiddenSize, BaseHeads, FALSE, FALSE,
                   PretrainedConvKernel, PretrainedConvStride, PretrainedPosKernel),
      HubertConfig(24, 1024, 16, TRUE, TRUE,
                   PretrainedConvKernel, PretrainedConvStride, PretrainedPosKernel),
      HubertConfig(48, 1280, 16, TRUE, TRUE,
                   PretrainedConvKernel, PretrainedConvStride, PretrainedPosKernel) }

\* Configurations with the two-stage schedule and n layers, n in Ns.
SmallConfigs(Ns) ==
    { HubertConfig(n, SmallHiddenSize, SmallHeads, stable, prenorm,
                   SmallConvKernel, SmallConvStride, PretrainedPosKernel) :
        n \in Ns, stable \in BOOLEAN, prenorm \in BOOLEAN }

\* No call has been made, or its result has been taken.
Idle ==
    [op |-> "none", len |-> 0, chunk_size |-> 0, chunks |-> <<>>, sample_rate |-> 0,
     causal |-> FALSE, output_layer |-> NoneLayer, stack |-> <<>>, kmeans |-> 0,
     err |-> "", ev |-> <<>>, out |-> <<>>, batched |-> FALSE]

Args(sample_rate, causal, output_layer) ==
    [sample_rate |-> sample_rate, causal |-> causal, output_layer |-> output_layer]

\* The record of a returned call: its arguments, the model state it ran on
\* (layer stack, bound quantizer) and what it returned (r).
Returned(op, len, chunk_size, chunks, a, kmeans, r) ==
    [op |-> op, len |-> len, chunk_size |-> chunk_size, chunks |-> chunks,
     sample_rate |-> a.sample_rate, causal |-> a.causal, output_layer |-> a.output_layer,
     stack |-> layers, kmeans |-> kmeans,
     err |-> r.err, ev |-> r.ev, out |-> r.out, batched |-> r.batched]

\* Hubert(config): nn.ModuleList of num_hidden_layers layers, weight norm on
\* the positional convolution, no predictor yet.
InitWith(Configs) ==
    /\ config \in Configs
    /\ layers = [i \in 1..config.num_hidden_layers |-> i - 1]
    /\ weight_norm = TRUE
    /\ predictor = [built |-> FALSE, kmeans |-> 0]
    /\ call = Idle

\* A mutant of HubertAttentionInit: the divisibility check is missing.
HubertAttentionInitUnchecked(embed_dim, num_heads) ==
    IF num_heads = 0 THEN [err |-> "ZeroDivisionError", head_dim |-> 0]
    ELSE [err |-> "", head_dim |-> embed_dim \div num_heads]

\* HubertAttention.__init__: head_dim = embed_dim // num_heads, ValueError
\* unless head_dim * num_heads == embed_dim (num_heads >= 0 here; the floor
\* division raises ZeroDivisionError for num_heads = 0).
HubertAttentionInit(embed_dim, num_heads) ==
    IF num_heads = 0 THEN [err |-> "ZeroDivisionError", head_dim |-> 0]
    ELSE IF (embed_dim \div num_heads) * num_heads # embed_dim
    THEN [err |-> "ValueError", head_dim |-> embed_dim \div num_heads]
    ELSE [err |-> "", head_dim |-> embed_dim \div num_heads]

\* The result of constructing layer i, given the result at of constructing
\* its attention block: an exception propagates out of the constructor.
RECURSIVE EncoderLayersInit(_, _, _)
AfterAttentionInit(cfg, i, ev, at) ==
    IF at.err # "" THEN [err |-> at.err, ev |-> ev]
    ELSE EncoderLayersInit(cfg, i + 1,
             Append(ev, Ev("head_dim", at.head_dim, cfg.num_attention_heads)))

\* [HubertEncoderLayer(config) for _ in range(config.num_hidden_layers)]:
\* every layer constructs HubertAttention(hidden_size, num_attention_heads).
EncoderLayersInit(cfg, i, ev) ==
    IF i >= cfg.num_hidden_layers THEN [err |-> "", ev |-> ev]
    ELSE AfterAttentionInit(cfg, i,
             Append(ev, Ev("HubertAttention", cfg.hidden_size, cfg.num_attention_heads)),
             HubertAttentionInit(cfg.hidden_size, cfg.num_attention_heads))

\* Hubert(config): a new model takes the place of the one at hand, unless
\* the constructor raises.
NewHubert(Configs) ==
    /\ call.op = "none"
    /\ \E cfg \in Configs :
         /\ call' = Returned("Hubert", cfg.num_hidden_layers, 0, <<>>, Args(0, FALSE, NoneLayer), 0,
                        [err |-> EncoderLayersInit(cfg, 0, <<>>).err,
                         ev |-> EncoderLayersInit(cfg, 0, <<>>).ev,
                         out |-> <<>>, batched |-> FALSE])
         /\ IF EncoderLayersInit(cfg, 0, <<>>).err # ""
            THEN UNCHANGED <<config, layers, weight_norm, predictor>>
            ELSE /\ config' = cfg
                 /\ layers' = [i \in 1..cfg.num_hidden_layers |-> i - 1]
                 /\ weight_norm' = TRUE
                 /\ predictor' = [built |-> FALSE, kmeans |-> 0]

\* A mutant of DelFrom: del self.encoder.layers[output_layer + 1:].
DelAfter(stack, output_layer) == SubSeq(stack, 1, output_layer + 1)

\* del self.encoder.layers[output_layer:] for 0 <= output_layer < len.
DelFrom(stack, output_layer) == SubSeq(stack, 1, output_layer)

\* Hubert.set_output_layer(output_layer), output_layer an int or a float.
SetOutputLayer(OLs) ==
    /\ call.op = "none"
    /\ \E output_layer \in OLs :
         LET ol == normalize_output_layer(output_layer, Len(layers))
             a  == Args(0, FALSE, output_layer)
         IN  IF ol.err
             THEN /\ layers' = layers
                  /\ call' = Returned("set_output_layer", 0, 0, <<>>, a, 0,
                                 [err |-> "ValueError", ev |-> <<>>, out |-> <<>>, batched |-> FALSE])
             ELSE /\ layers' = DelFrom(layers, ol.idx)
                  /\ call' = Returned("set_output_layer", 0, 0, <<>>, a, 0,
                                 [err |-> "", ev |-> <<>>, out |-> <<>>, batched |-> FALSE])
    /\ UNCHANGED <<config, weight_norm, predictor>>

\* Hubert.forward(input_values, sample_rate, causal, output_layer) on a
\* (1, len) waveform.
Forward(Lens, Rates, Causals, OLs) ==
    /\ call.op = "none"
    /\ \E len \in Lens, sample_rate \in Rates, causal \in Causals, output_layer \in OLs :
         LET a   == Args(sample_rate, causal, output_layer)
             x   == Tensor(1, 0, len)
             fwd == HubertForward(config, layers, x, sample_rate, causal, output_layer)
         IN  call' = Returned("forward", len, 0, <<>>, a, 0,
                         [err |-> fwd.err, ev |-> fwd.ev,
                          out |-> IF fwd.err = "" THEN Features(x, fwd) ELSE <<>>,
                          batched |-> fwd.err = ""])
    /\ UNCHANGED <<config, layers, weight_norm, predictor>>

\* Hubert.remove_weight_norm_(): nn.utils.remove_weight_norm on the
\* positional convolution, which raises ValueError when the module carries
\* no weight-norm hook.
RemoveWeightNorm ==
    /\ call.op = "none"
    /\ IF weight_norm
       THEN /\ weight_norm' = FALSE
            /\ call' = Returned("remove_weight_norm_", 0, 0, <<>>, Args(0, FALSE, NoneLayer), 0,
                           [err |-> "", ev |-> <<Ev("remove_weight_norm", 0, 0)>>,
                            out |-> <<>>, batched |-> FALSE])
       ELSE /\ UNCHANGED weight_norm
            /\ call' = Returned("remove_weight_norm_", 0, 0, <<>>, Args(0, FALSE, NoneLayer), 0,
                           [err |-> "ValueError", ev |-> <<>>, out |-> <<>>, batched |-> FALSE])
    /\ UNCHANGED <<config, layers, predictor>>

\* Hubert.predictor(kmeans) / HubertPredictor.__init__: remove_weight_norm_
\* first; nn.utils.remove_weight_norm raises ValueError when the module
\* carries no weight-norm hook, and the predictor is then not constructed.
NewPredictor(Centers) ==
    /\ call.op = "none"
    /\ \E kmeans \in Centers :
         IF weight_norm
         THEN /\ weight_norm' = FALSE
              /\ predictor' = [built |-> TRUE, kmeans |-> kmeans]
              /\ call' = Returned("predictor", 0, 0, <<>>, Args(0, FALSE, NoneLayer), kmeans,
                             [err |-> "", ev |-> <<Ev("remove_weight_norm", 0, 0)>>,
                              out |-> <<>>, batched |-> FALSE])
         ELSE /\ UNCHANGED <<weight_norm, predictor>>
              /\ call' = Returned("predictor", 0, 0, <<>>, Args(0, FALSE, NoneLayer), kmeans,
                             [err |-> "ValueError", ev |-> <<>>, out |-> <<>>, batched |-> FALSE])
    /\ UNCHANGED <<config, layers>>

\* The answers the bound KMeans model gives for the frames of run dry, the
\* same call without the quantizer: one center index per frame the model
\* forward produced.
Answers(kmeans, dry) ==
    IF kmeans = 0 THEN {<<>>} ELSE [1..dry.frames -> 0..(kmeans - 1)]

\* A mutant of Predict: predict also truncates the stack at output_layer, as
\* set_output_layer does.
PredictTruncating(Lens, Rates, Causals, OLs) ==
    /\ call.op = "none"
    /\ predictor.built
    /\ \E len \in Lens, sample_rate \in Rates, causal \in Causals, output_layer \in OLs :
         /\ call' = Returned("predict", len, 0, <<>>, Args(sample_rate, causal, output_layer),
                        predictor.kmeans,
                        HubertPredictorPredict(config, layers, 0, len,
                                               Args(sample_rate, causal, output_layer), <<>>))
         /\ layers' = IF output_layer.kind = "none"
                          \/ normalize_output_layer(output_layer, Len(layers)).err
                       THEN layers
                       ELSE DelFrom(layers, normalize_output_layer(output_layer, Len(layers)).idx)
    /\ UNCHANGED <<config, weight_norm, predictor>>

\* HubertPredictor.predict(waveform, sample_rate, output_layer, causal).
Predict(Lens, Rates, Causals, OLs) ==
    /\ call.op = "none"
    /\ predictor.built
    /\ \E len \in Lens, sample_rate \in Rates, causal \in Causals, output_layer \in OLs :
         LET a == Args(sample_rate, causal, output_layer)
         IN  \E answers \in Answers(predictor.kmeans,
                                    HubertPredictorPredict(config, layers, 0, len, a, <<>>)) :
                call' = Returned("predict", len, 0, <<>>, a, predictor.kmeans,
                            HubertPredictorPredict(config, layers, predictor.kmeans, len, a, answers))
    /\ UNCHANGED <<config, layers, weight_norm, predictor>>

\* HubertPredictor.predict_in_chunks(waveform, sample_rate, chunk_size,
\* output_layer, causal).
PredictInChunks(Lens, Rates, ChunkSizes, Causals, OLs) ==
    /\ call.op = "none"
    /\ predictor.built
    /\ \E len \in Lens, chunk_size \in ChunkSizes, sample_rate \in Rates,
          causal \in Causals, output_layer \in OLs :
         LET a == Args(sample_rate, causal, output_layer)
         IN  \E answers \in Answers(predictor.kmeans,
                   HubertPredictorPredictInChunks(config, layers, 0, len, chunk_size, a, <<>>)) :
                call' = Returned("predict_in_chunks", len, chunk_size, <<>>, a, predictor.kmeans,
                            HubertPredictorPredictInChunks(config, layers, predictor.kmeans,
                                                           len, chunk_size, a, answers))
    /\ UNCHANGED <<config, layers, weight_norm, predictor>>

\* HubertPredictor.predict_file(path, chunk_length_sec, output_layer, causal):
\* chunks are the shapes the reader and the effects produce; sample_rate is
\* props.sample_rate of the file.
PredictFile(Audio, Rates, Causals, OLs) ==
    /\ call.op = "none"
    /\ predictor.built
    /\ \E chunks \in Audio, sample_rate \in Rates, causal \in Causals, output_layer \in OLs :
         LET a == Args(sample_rate, causal, output_layer)
         IN  \E answers \in Answers(predictor.kmeans,
                   HubertPredictorPredictFile(config, layers, 0, chunks, a, <<>>)) :
                call' = Returned("predict_file", 0, 0, chunks, a, predictor.kmeans,
                            HubertPredictorPredictFile(config, layers, predictor.kmeans,
                                                       chunks, a, answers))
    /\ UNCHANGED <<config, layers, weight_norm, predictor>>

\* The caller takes the result of the returned call.
Return ==
    /\ call.op # "none"
    /\ call' = Idle
    /\ UNCHANGED <<config, layers, weight_norm, predictor>>

(***************************************************************************)
(* Inputs and specifications.                                              *)
(***************************************************************************)
Rates == {HubertSampleRate, OtherSampleRate}

\* Float arguments num / FracDen (0.25, 0.75, 1.0, -0.5, ...), and 0.5.
FloatArgs == { FloatLayer(k, FracDen) : k \in (-MaxFracNum)..MaxFracNum } \cup {FloatLayer(1, 2)}
\* Int arguments around a stack of at most n layers, out-of-range ones included.
IntArgs(n) == { IntLayer(k) : k \in (-(n + 1))..(n + 1) }
\* What set_output_layer takes (int | float) and what forward takes (or None).
SetArgs(n) == IntArgs(n) \cup FloatArgs
OutputLayers(n) == {NoneLayer} \cup SetArgs(n)
\* The same with 0.5 as the only float.
ProbeSetArgs(n) == IntArgs(n) \cup {FloatLayer(1, 2)}
ProbeOutputLayers(n) == {NoneLayer} \cup ProbeSetArgs(n)
\* None, an early exit at the first layer, and an index past the stack.
FewOutputLayers == {NoneLayer, IntLayer(0), IntLayer(SmallLayers)}

\* 0 stands for no quantizer, otherwise the number of centers.
KMeansChoices == {0, MaxCenters}

\* An empty waveform and one the small schedule accepts.
ProbeLens == {0, MaxSamples}
ProbeChunkSizes == {MaxSamples \div 3, MaxSamples}
\* Chunk shapes after the effects: mono or not, of the given lengths.
ChunkShapes(Lens) == [rows : {1, 2}, len : Lens]
RECURSIVE SeqsUpTo(_, _)
SeqsUpTo(S, n) ==
    IF n = 0 THEN {<<>>}
    ELSE LET shorter == SeqsUpTo(S, n - 1)
         IN  shorter \cup { Append(q, e) : q \in { t \in shorter : Len(t) = n - 1 }, e \in S }
ProbeFiles == SeqsUpTo(ChunkShapes({MaxSamples \div 3}), MaxReads)
Files == SeqsUpTo(ChunkShapes({(MaxSamples \div 3) - 1, MaxSamples \div 3, MaxSamples}), MaxReads)

\* The model assembly and the predictor on small models: every operation.
Init == InitWith(SmallConfigs({SmallLayers}))
Next ==
    \/ SetOutputLayer(ProbeSetArgs(SmallLayers))
    \/ RemoveWeightNorm
    \/ Forward(ProbeLens, Rates, BOOLEAN, ProbeOutputLayers(SmallLayers))
    \/ NewPredictor(KMeansChoices)
    \/ Predict(ProbeLens, Rates, BOOLEAN, ProbeOutputLayers(SmallLayers))
    \/ PredictInChunks(ProbeLens, Rates, ProbeChunkSizes, BOOLEAN, ProbeOutputLayers(SmallLayers))
    \/ PredictFile(ProbeFiles, Rates, BOOLEAN, ProbeOutputLayers(SmallLayers))
    \/ Return
Spec == Init /\ [][Next]_vars

\* The inference pipeline: every waveform length and chunk size up to the
\* bounds, every file of up to MaxReads chunks.
NextChunks ==
    \/ NewPredictor(KMeansChoices)
    \/ Predict(0..MaxSamples, Rates, {FALSE}, FewOutputLayers)
    \/ PredictInChunks(0..MaxSamples, Rates, (-1)..(MaxSamples + 1), {FALSE}, FewOutputLayers)
    \/ PredictFile(Files, Rates, {FALSE}, FewOutputLayers)
    \/ Return
SpecChunks == Init /\ [][NextChunks]_vars

\* Output-layer resolution and truncation on stacks of 1 .. MaxLayers layers.
InitResolve == InitWith(SmallConfigs(1..MaxLayers))
NextResolve ==
    \/ SetOutputLayer(SetArgs(MaxLayers))
    \/ Forward({MaxSamples}, {HubertSampleRate}, {FALSE}, OutputLayers(MaxLayers))
    \/ Return
SpecResolve == InitResolve /\ [][NextResolve]_vars

\* The pretrained configurations on waveforms of 0 .. MaxTsz samples.
InitShape == InitWith(PretrainedConfigs)
NextShape ==
    \/ Forward({DefaultTsz}, {HubertSampleRate}, BOOLEAN, {NoneLayer})
    \/ NewPredictor({0})
    \/ Predict((0..MaxTsz) \cup {DefaultTsz}, {HubertSampleRate}, BOOLEAN, {NoneLayer})
    \/ Return
SpecShape == InitShape /\ [][NextShape]_vars

\* Model construction from configurations of every width and head count.
WidthConfigs ==
    { HubertConfig(n, hidden, heads, stable, FALSE,
                   SmallConvKernel, SmallConvStride, PretrainedPosKernel) :
        n \in 0..MaxBuildLayers, hidden \in 1..MaxHidden, heads \in 0..MaxHeads,
        stable \in BOOLEAN }
InitAttention == InitWith(SmallConfigs({1}))
NextAttention ==
    \/ NewHubert(WidthConfigs)
    \/ Forward({MaxSamples}, {HubertSampleRate}, {FALSE}, {NoneLayer})
    \/ Return
SpecAttention == InitAttention /\ [][NextAttention]_vars

\* One-layer models with every positional kernel width 1 .. MaxPosKernel.
PosConfigs ==
    { HubertConfig(1, SmallHiddenSize, SmallHeads, stable, FALSE,
                   SmallConvKernel, SmallConvStride, k) :
        k \in 1..MaxPosKernel, stable \in BOOLEAN }
InitPos == InitWith(PosConfigs)
NextPos ==
    \/ Forward(0..MaxPosSamples, {HubertSampleRate}, {FALSE}, {NoneLayer})
    \/ Return
SpecPos == InitPos /\ [][NextPos]_vars

(***************************************************************************)
(* Properties.                                                             *)
(***************************************************************************)
Abs(n) == IF n < 0 THEN -n ELSE n
\* The steps named name among the steps ev, in order.
Steps(ev, name) == SelectSeq(ev, LAMBDA e : e.ev = name)
\* Steps that are work of the model: convolutions, projection, the encoder.
ModelWork == {"conv", "feature_projection", "pos_conv_embed", "layer_norm", "layer",
              "forward_return", "kmeans"}
\* The arguments of the returned call, as the entry points take them.
CallArgs == Args(call.sample_rate, call.causal, call.output_layer)
\* A waveform the small schedule accepts.
ProbeWave == Tensor(1, 0, MaxSamples)

\* C1: set_output_layer(K) followed by forward with output_layer=None applies
\* the same sequence of layers, and gives the same output, as the forward of
\* the untruncated model with output_layer=K.  (The code keeps layers
\* 0 .. K-1 while the early exit runs layers 0 .. K: this statement fails.)
C1_TruncatedForwardEqualsEarlyExit ==
    (call.op = "set_output_layer" /\ call.err = "") =>
        \A causal \in BOOLEAN :
            HubertForward(config, layers, ProbeWave, HubertSampleRate, causal, NoneLayer)
              = HubertForward(config, call.stack, ProbeWave, HubertSampleRate, causal,
                              call.output_layer)

\* C3, the resolution the claim describes: an integer k on n layers.
C3_IntRule(k, n) ==
    IF 0 <= k /\ k < n THEN k
    ELSE IF -n <= k /\ k < 0 THEN k + n
    ELSE -1
\* C3, the integers nearest to (num / den) * n.
C3_Nearest(ol, n) ==
    { r \in (-(Abs(ol.num) * n + 1))..(Abs(ol.num) * n + 1) :
        2 * Abs(ol.den * r - ol.num * n) <= ol.den }
\* C3, the outcomes the claim allows: an index, or -1 for the error.
C3_Allowed(ol, n) ==
    IF ol.kind = "int" THEN {C3_IntRule(ol.num, n)}
    ELSE { C3_IntRule(r, n) : r \in C3_Nearest(ol, n) }
\* C3, the outcome observed: the index of the last layer forward applied, or
\* the number of layers set_output_layer kept; -1 for a raised error.
C3_Observed ==
    IF call.err # "" THEN -1
    ELSE IF call.op = "forward" THEN LayersApplied(call.ev)[Len(LayersApplied(call.ev))]
    ELSE Len(layers)

\* C3: normalize_output_layer resolves None to None (every layer runs), an
\* integer K in [0, N) to K, K in [-N, 0) to K + N, a fraction f to the
\* integer nearest f * N and then by the integer rules; every value resolved
\* outside [0, N) raises ValueError.  On N = 12: 0.5 gives 6, -1 gives 11 and
\* 12 fails.
C3_OutputLayerResolution ==
    (call.op \in {"forward", "set_output_layer"}) =>
        LET n  == Len(call.stack)
            ol == call.output_layer
        IN  IF ol.kind = "none"
            THEN call.err = "" /\ LayersApplied(call.ev) = call.stack
            ELSE /\ C3_Observed \in C3_Allowed(ol, n)
                 /\ call.err \in {"", "ValueError"}
                 /\ (n = 12 /\ ol = FloatLayer(1, 2)) => C3_Observed = 6
                 /\ (n = 12 /\ ol = IntLayer(-1)) => C3_Observed = 11
                 /\ (n = 12 /\ ol = IntLayer(12)) => C3_Observed = -1

\* C3 witness: a forward on 12 layers with output_layer=0.5 stopped after layer 6.
C3_Witness ==
    /\ call.op = "forward" /\ call.err = ""
    /\ Len(call.stack) = 12
    /\ call.output_layer = FloatLayer(1, 2)
    /\ LayersApplied(call.ev) = <<0, 1, 2, 3, 4, 5, 6>>

\* C4: forward, predict and predict_in_chunks called with a sample rate other
\* than 16000 fail, return no result, and run no convolution, projection or
\* encoder step; the failure is the sample-rate error as soon as a forward
\* is reached.
C4_WrongSampleRateFailsBeforeModelWork ==
    (call.op \in {"forward", "predict", "predict_in_chunks"}
        /\ call.sample_rate # HubertSampleRate) =>
        /\ call.err # ""
        /\ call.out = <<>>
        /\ \A i \in 1..Len(call.ev) : call.ev[i].ev \notin ModelWork
        /\ (call.op \in {"forward", "predict"}) => call.err = "RuntimeError:sample_rate"
        /\ (call.op = "predict_in_chunks" /\ call.len > 0 /\ call.chunk_size > 0)
              => call.err = "RuntimeError:sample_rate"

\* C4 witness: predict_in_chunks at 8 kHz on a waveform the model would
\* accept failed with the sample-rate error.
C4_Witness ==
    /\ call.op = "predict_in_chunks"
    /\ call.sample_rate = OtherSampleRate
    /\ call.len = MaxSamples /\ call.chunk_size = MaxSamples
    /\ call.err = "RuntimeError:sample_rate"

\* C2: on a waveform w of batch size 1, predict_in_chunks(w, chunk_size=len(w))
\* that returns performs the same steps as predict(w) (the same
\* pre-normalization, one model forward, the same quantization) and predict
\* returns the same frames, for every configuration.  (predict never pre-normalizes: this statement fails
\* on a model with pre_normalize set.)
C2_SingleChunkEqualsPredict ==
    (call.op = "predict_in_chunks" /\ call.chunk_size = call.len /\ call.err = "") =>
        \E answers \in Answers(call.kmeans,
                HubertPredictorPredict(config, call.stack, 0, call.len, CallArgs, <<>>)) :
            LET p == HubertPredictorPredict(config, call.stack, call.kmeans, call.len,
                                            CallArgs, answers)
            IN  /\ (p.err = "") <=> (call.err = "")
                /\ p.out = call.out
                /\ Len(Steps(p.ev, "layer_norm_wave")) = Len(Steps(call.ev, "layer_norm_wave"))
                /\ Len(Steps(p.ev, "forward")) = 1 /\ Len(Steps(call.ev, "forward")) = 1
                /\ Len(Steps(p.ev, "kmeans")) = Len(Steps(call.ev, "kmeans"))

\* C5, the frames of the chunks done, chunk after chunk: done[i].a is the
\* start offset of chunk i and done[i].b the time length of its output.
RECURSIVE C5_InOrder(_)
C5_InOrder(done) ==
    IF Len(done) = 0 THEN <<>>
    ELSE [t \in 1..Head(done).b |-> <<Head(done).a, t>>] \o C5_InOrder(Tail(done))
RECURSIVE C5_TotalLength(_)
C5_TotalLength(done) ==
    IF Len(done) = 0 THEN 0 ELSE Head(done).b + C5_TotalLength(Tail(done))

\* C5: predict_in_chunks encodes the chunks in increasing order of start
\* offset and its result is their outputs joined along time in that order,
\* nothing reordered, dropped or repeated; the time length of the result is
\* the sum of the chunks' output lengths.
C5_ChunksConcatenatedInOrder ==
    (call.op = "predict_in_chunks" /\ call.err = "") =>
        LET fw   == Steps(call.ev, "forward")
            done == Steps(call.ev, "cpu")
        IN  /\ \A i, j \in 1..Len(fw) : i < j => fw[i].a < fw[j].a
            /\ Len(done) = Len(fw)
            /\ \A i \in 1..Len(fw) : done[i].a = fw[i].a
            /\ Len(call.out) = C5_TotalLength(done)
            /\ [p \in 1..Len(call.out) |-> <<call.out[p].x.off, call.out[p].t>>]
                 = C5_InOrder(done)

\* C5 witness: three chunks were encoded and joined.
C5_Witness ==
    /\ call.op = "predict_in_chunks" /\ call.err = ""
    /\ Len(Steps(call.ev, "forward")) = 3
    /\ Len(call.out) = 3

\* C6, ceil(len / chunk_size) for chunk_size >= 1.
C6_NumChunks(len, chunk_size) == (len + chunk_size - 1) \div chunk_size
\* C6, chunk i (from 1) of the split is sliced as step sl and encoded as step fw.
C6_ChunkIs(i, n, sl, fw) ==
    /\ sl.a = (i - 1) * call.chunk_size
    /\ sl.b = (IF i < n THEN call.chunk_size ELSE call.len - (n - 1) * call.chunk_size)
    /\ sl.b >= 1 /\ sl.b <= call.chunk_size
    /\ fw.a = sl.a /\ fw.b = sl.b

C7_NormalizedOnceBeforeChunking ==
    (call.op = "predict_in_chunks") =>
        LET nw == Steps(call.ev, "layer_norm_wave")
        IN  /\ Len(nw) = (IF config.pre_normalize THEN 1 ELSE 0)
            /\ config.pre_normalize =>
                  /\ call.ev[2] = Ev("layer_norm_wave", 0, call.len)
                  /\ \A i \in 1..Len(call.ev) :
                        call.ev[i].ev \in {"slice", "forward"} => i > 2
            /\ \A p \in 1..Len(call.out) :
                  /\ call.out[p].x.noff = 0
                  /\ call.out[p].x.nlen = (IF config.pre_normalize THEN call.len ELSE -1)

\* C7 witness: a pre-normalizing model encoded two chunks of one waveform.
C7_Witness ==
    /\ call.op = "predict_in_chunks" /\ call.err = ""
    /\ config.pre_normalize
    /\ Len(Steps(call.ev, "forward")) = 2

\* The steps of a call without those inside Hubert.forward.
PipelineSteps(ev) ==
    SelectSeq(ev, LAMBDA e : e.ev \notin {"conv", "feature_projection", "pos_conv_embed",
                                          "layer_norm", "layer"})
\* C8, the steps of predict_file on one chunk up to the model forward at
\* step j of P: effects, mono check, device placement, pre-normalization.
C8_LeadsToForward(P, j) ==
    LET off == P[j].a
        len == P[j].b
    IN  IF config.pre_normalize
        THEN /\ j > 4
             /\ P[j - 4] = Ev("effects", off, len)
             /\ P[j - 3] = Ev("mono_check", off, 1)
             /\ P[j - 2] = Ev("tensor_to", off, len)
             /\ P[j - 1] = Ev("layer_norm_wave", off, len)
        ELSE /\ j > 3
             /\ P[j - 3] = Ev("effects", off, len)
             /\ P[j - 2] = Ev("mono_check", off, 1)
             /\ P[j - 1] = Ev("tensor_to", off, len)
\* C8, the steps after the forward that returned at step j of P.
C8_FollowsForward(P, j) ==
    /\ P[j - 1].ev = "forward"
    /\ j < Len(P)
    /\ P[j + 1].ev = (IF call.kmeans # 0 THEN "kmeans" ELSE "cpu")

\* C8: in predict_file every chunk goes through signal effects, mono check,
\* device placement, pre-normalization of that chunk alone (only when
\* pre_normalize is set), model forward at 16 kHz, quantization (only when a
\* quantizer is bound), in this order; a chunk that is not mono after the
\* effects fails the call before that chunk is encoded, with no result.
C8_PredictFileStepOrder ==
    (call.op = "predict_file") =>
        LET P  == PipelineSteps(call.ev)
            fw == Steps(call.ev, "forward")
        IN  /\ \A j \in 1..Len(P) :
                  /\ P[j].ev = "forward" => C8_LeadsToForward(P, j)
                  /\ P[j].ev = "forward_return" => C8_FollowsForward(P, j)
            /\ Len(Steps(call.ev, "layer_norm_wave"))
                 = (IF config.pre_normalize THEN Len(fw) ELSE 0)
            /\ Len(Steps(call.ev, "kmeans"))
                 = (IF call.kmeans # 0 THEN Len(Steps(call.ev, "forward_return")) ELSE 0)
            /\ call.err # "RuntimeError:sample_rate"
            /\ Len(fw) <= Len(call.chunks)
            /\ \A i \in 1..Len(fw) : call.chunks[i].rows = 1 /\ fw[i].b = call.chunks[i].len
            /\ \A p \in 1..Len(call.out) :
                  LET x == call.out[p].x
                  IN  IF config.pre_normalize
                      THEN x.noff = x.off /\ x.nlen = x.len
                      ELSE x.nlen = -1
            /\ \A i \in 1..Len(call.chunks) :
                  call.chunks[i].rows # 1 =>
                     /\ call.err # "" /\ call.out = <<>>
                     /\ Len(fw) < i
                     /\ Len(Steps(call.ev, "forward_return")) = i - 1
                           => call.err = "AssertionError"

\* C8 witness: the first chunk was encoded, the second was not mono and
\* failed the call.
C8_Witness ==
    /\ call.op = "predict_file"
    /\ call.err = "AssertionError"
    /\ Len(Steps(call.ev, "forward_return")) = 1
    /\ Len(Steps(call.ev, "forward")) = 1

\* C9: with a cluster model of C centers bound, predict returns an index in
\* [0, C) for every timestep; in predict, predict_in_chunks and predict_file
\* the quantizer is applied exactly once to each encoder output, right
\* after the forward that produced it and before the concatenation, when it
\* is bound, and never when it is not.
C9_QuantizerAppliedOncePerOutput ==
    (call.op \in {"predict", "predict_in_chunks", "predict_file"}) =>
        LET P  == PipelineSteps(call.ev)
            km == Steps(call.ev, "kmeans")
        IN  /\ call.kmeans = predictor.kmeans
            /\ Len(km) = (IF call.kmeans # 0 THEN Len(Steps(call.ev, "forward_return")) ELSE 0)
            /\ \A j \in 1..Len(P) :
                  /\ (P[j].ev = "forward_return" /\ call.kmeans # 0) =>
                        (j < Len(P) /\ P[j + 1] = Ev("kmeans", P[j].b, call.kmeans))
                  /\ P[j].ev = "kmeans" => P[j - 1].ev = "forward_return"
                  /\ P[j].ev = "cat" => j = Len(P)
            /\ \A p \in 1..Len(call.out) :
                  IF call.kmeans # 0
                  THEN call.out[p].q \in 0..(call.kmeans - 1)
                  ELSE call.out[p].q = -1
            /\ (call.op = "predict" /\ call.err = "") => Len(call.out) >= 1

\* C9 witness: predict with a bound quantizer returned the last center for
\* some timestep.
C9_Witness ==
    /\ call.op = "predict" /\ call.err = ""
    /\ call.kmeans = MaxCenters
    /\ \E p \in 1..Len(call.out) : call.out[p].q = MaxCenters - 1

\* C10, the product of the strides (320 for the pretrained schedule).
RECURSIVE C10_TotalStride(_)
C10_TotalStride(stride) ==
    IF Len(stride) = 0 THEN 1 ELSE Head(stride) * C10_TotalStride(Tail(stride))
\* C10, the receptive field of the schedule (400 for the pretrained one).
RECURSIVE C10_ReceptiveField(_, _)
C10_ReceptiveField(kernel, stride) ==
    IF Len(kernel) = 0 THEN 1
    ELSE (Head(kernel) - 1) + Head(stride) * (C10_ReceptiveField(Tail(kernel), Tail(stride)) - 1) + 1

C11_BaseShape ==
    ( /\ call.op \in {"forward", "predict"}
      /\ call.len = DefaultTsz /\ call.sample_rate = HubertSampleRate
      /\ config.num_hidden_layers = 12 /\ config.hidden_size = 768
      /\ config.num_attention_heads = 12
      /\ config.conv_stride = <<5, 2, 2, 2, 2, 2, 2>>
      /\ config.conv_kernel = <<10, 3, 3, 3, 3, 2, 2>>
      /\ config.num_conv_pos_embeddings = 128 ) =>
        LET proj == Steps(call.ev, "feature_projection")
        IN  /\ call.err = ""
            /\ call.batched
            /\ Len(call.out) = (22400 \div 320) - 1
            /\ Len(call.out) = 69
            /\ Len(proj) = 1 /\ proj[1].a = 69 /\ proj[1].b = 768
            /\ Len(Steps(call.ev, "layer")) = 12

\* C11 witness: forward on the base model returned 69 timesteps of width 768.
C11_Witness ==
    /\ call.op = "forward" /\ call.err = ""
    /\ call.len = DefaultTsz
    /\ config.num_hidden_layers = 12
    /\ Len(call.out) = 69
    /\ \E i \in 1..Len(call.ev) : call.ev[i] = Ev("feature_projection", 69, 768)

\* C12, num_heads evenly divides embed_dim.
C12_Divides(num_heads, embed_dim) == num_heads # 0 /\ embed_dim % num_heads = 0

\* C12, the attention blocks of a model construction: block i is constructed
\* if and only if num_heads divides embed_dim, and then
\* head_dim * num_heads = embed_dim; a failing block fails the construction.
C12_AttentionBlocks ==
    (call.op = "Hubert") =>
        LET at == Steps(call.ev, "HubertAttention")
            hd == Steps(call.ev, "head_dim")
        IN  /\ \A i \in 1..Len(at) : C12_Divides(at[i].b, at[i].a) <=> (i <= Len(hd))
            /\ \A i \in 1..Len(hd) : hd[i].a * hd[i].b = at[i].a
            /\ (call.err = "") <=> (Len(hd) = Len(at))
            /\ call.err = "" => Len(at) = call.len
            /\ call.err # "" => Len(at) = Len(hd) + 1

C13_SecondRemovalCompletes ==
    [][(~weight_norm /\ call'.op \in {"remove_weight_norm_", "predictor"})
          => (call'.err = "" /\ UNCHANGED <<config, layers, weight_norm>>)]_vars

\* C14: after set_output_layer(K) on a stack of N layers, K resolved as in
\* the early exit, the stack is exactly the original layers 0 .. K in their
\* order (layer K is kept); a K out of range after resolution raises and
\* leaves the stack unchanged.
C14_KeepsLayersThroughK ==
    (call.op = "set_output_layer") =>
        LET r == normalize_output_layer(call.output_layer, Len(call.stack))
        IN  IF r.err
            THEN call.err = "ValueError" /\ layers = call.stack
            ELSE call.err = "" /\ layers = SubSeq(call.stack, 1, r.idx + 1)

\* C15: over any sequence of operations on one model the length of the layer
\* stack changes at most once (after one successful set_output_layer, which
\* leaves fewer than num_hidden_layers layers, nothing changes it, a further
\* set_output_layer included), and it never increases.
C15_StackLengthChangesAtMostOnce ==
    [][/\ Len(layers') <= Len(layers)
       /\ Len(layers) < config.num_hidden_layers => Len(layers') = Len(layers)]_vars

\* C16: in both stack variants a forward pass whose output_layer resolves to
\* K applies exactly layers 0, 1, ..., K, each once and in increasing order,
\* and no layer beyond K; with output_layer=None it applies all the layers
\* of the stack in order.
C16_LayersInOrderThroughK ==
    (call.op = "forward" /\ call.err = "") =>
        LET applied == Steps(call.ev, "layer")
            n       == Len(call.stack)
            r       == normalize_output_layer(call.output_layer, n)
            last    == IF call.output_layer.kind = "none" THEN n - 1 ELSE r.idx
        IN  /\ ~r.err
            /\ Len(applied) = last + 1
            /\ \A i \in 1..Len(applied) :
                  /\ applied[i].a = i - 1
                  /\ applied[i].b = (IF call.causal THEN 1 ELSE 0)
            /\ \A i \in 1..Len(applied) : applied[i].a <= last

\* C16 witness: on 12 layers of the stable variant, output_layer=5 ran
\* layers 0 .. 5 and stopped.
C16_Witness ==
    /\ call.op = "forward" /\ call.err = ""
    /\ config.do_stable_layer_norm
    /\ Len(call.stack) = 12
    /\ call.output_layer = IntLayer(5)
    /\ LayersApplied(call.ev) = <<0, 1, 2, 3, 4, 5>>

\* C17, the encoder-level steps of a call: positional embedding, stack
\* normalization, layers.
C17_EncoderSteps ==
    SelectSeq(call.ev, LAMBDA e : e.ev \in {"pos_conv_embed", "layer_norm", "layer"})
\* C17, the stack normalization of a single forward pass.
C17_NormPlacement ==
    (call.op \in {"forward", "predict"}) =>
        LET E     == C17_EncoderSteps
            norms == Steps(call.ev, "layer_norm")
        IN  /\ Len(norms) <= 1
            /\ call.err = "" =>
                  /\ Len(norms) = 1 /\ Len(E) >= 2
                  /\ E[1].ev = "pos_conv_embed"
                  /\ IF config.do_stable_layer_norm
                     THEN /\ E[Len(E)].ev = "layer_norm"
                          /\ \A i \in 2..(Len(E) - 1) : E[i].ev = "layer"
                     ELSE /\ E[2].ev = "layer_norm"
                          /\ \A i \in 3..Len(E) : E[i].ev = "layer"
            /\ (call.err # "" /\ Len(norms) = 1) =>
                  (~config.do_stable_layer_norm /\ Len(E) = 2 /\ E[2].ev = "layer_norm")

\* C17: every forward pass that returns applied the stack normalization
\* exactly once: in the post-norm stack after the positional embedding and
\* before the first layer, never after the loop; in the stable stack after
\* the layer loop, never before it, also when the loop stops early.  The
\* variant is fixed at construction by do_stable_layer_norm.
C17_StackNormOncePerForward ==
    /\ []C17_NormPlacement
    /\ [][config'.do_stable_layer_norm = config.do_stable_layer_norm]_vars

\* C17 witness: a stable-stack forward with output_layer=0 on more than one
\* layer ran layer 0 and then the normalization.
C17_Witness ==
    /\ call.op = "forward" /\ call.err = ""
    /\ config.do_stable_layer_norm
    /\ Len(call.stack) > 1
    /\ call.output_layer = IntLayer(0)
    /\ Len(C17_EncoderSteps) = 3
    /\ C17_EncoderSteps[2].ev = "layer" /\ C17_EncoderSteps[3].ev = "layer_norm"

\* C18: once a predictor is constructed, predict, predict_in_chunks and
\* predict_file calls, successful or failing, with any output_layer and
\* causal, leave the layer stack, the weight-normalization state (removed)
\* and the bound quantizer unchanged; from then on only set_output_layer
\* changes the model, and a predictor comes into being only by its
\* construction.
C18_InferenceLeavesModelUnchanged ==
    /\ [][call'.op \in {"predict", "predict_in_chunks", "predict_file"}
             => /\ predictor.built /\ ~weight_norm
                /\ UNCHANGED <<config, layers, weight_norm, predictor>>]_vars
    /\ [][predictor.built
             => /\ UNCHANGED <<config, weight_norm, predictor>>
                /\ layers' # layers => call'.op = "set_output_layer"]_vars
    /\ [][predictor' # predictor => (call'.op = "predictor" /\ ~weight_norm')]_vars

\* C18 witness: a failing predict_in_chunks call on a truncated model with a
\* bound quantizer returned with the model as it was at entry.
C18_Witness ==
    /\ call.op = "predict_in_chunks" /\ call.err # ""
    /\ predictor.built /\ predictor.kmeans = MaxCenters
    /\ ~weight_norm
    /\ layers = call.stack
    /\ Len(layers) < config.num_hidden_layers

\* C19, the outcomes of resolving the call's output_layer against the M
\* layers the stack had when the call was made (-1: rejected).
C19_Allowed == C3_Allowed(call.output_layer, Len(call.stack))
\* C19, some forward of the call got as far as the encoder.
C19_Reached == Len(Steps(call.ev, "pos_conv_embed")) >= 1
\* C19 for forward and the predictor entry points.
C19_ForwardResolvesAgainstStack ==
    LET M  == Len(call.stack)
        ol == call.output_layer
    IN  IF ol.kind = "none"
        THEN /\ call.err # "ValueError"
             /\ \A p \in 1..Len(call.out) : call.out[p].layers = call.stack
        ELSE /\ call.err = "ValueError" => (-1 \in C19_Allowed /\ C19_Reached)
             /\ (C19_Reached /\ C19_Allowed = {-1}) => call.err = "ValueError"
             /\ (ol.kind = "int" /\ ol.num >= M /\ C19_Reached) => call.err = "ValueError"
             /\ \A p \in 1..Len(call.out) :
                   LET L == call.out[p].layers
                   IN  /\ Len(L) >= 1 /\ L[Len(L)] \in C19_Allowed
                       /\ L = SubSeq(call.stack, 1, Len(L))
                       /\ (ol.kind = "int" /\ ol.num < 0) => L[Len(L)] = M + ol.num

\* C19: after set_output_layer has shortened the stack to M layers, every
\* later output_layer (forward, the predictor entry points, a further
\* set_output_layer) is resolved against M, not num_hidden_layers: negative
\* indices count from the new end, fractions scale by M, and an index i with
\* M <= i < N is rejected with an error.
C19_ResolvedAgainstCurrentStack ==
    /\ (call.op \in {"forward", "predict", "predict_in_chunks", "predict_file"})
          => C19_ForwardResolvesAgainstStack
    /\ (call.op = "set_output_layer")
          => /\ (IF call.err # "" THEN -1 ELSE Len(layers)) \in C19_Allowed
             /\ call.err \in {"", "ValueError"}
             /\ call.output_layer.kind = "int" /\ call.output_layer.num >= Len(call.stack)
                   => (call.err = "ValueError" /\ layers = call.stack)

\* C19 witness: on a 3-layer model shortened to 2 layers, predict with
\* output_layer=2 was rejected.
C19_Witness ==
    /\ call.op = "predict" /\ call.err = "ValueError"
    /\ config.num_hidden_layers = 3 /\ Len(call.stack) = 2
    /\ call.output_layer = IntLayer(2)

\* C20: for every positional kernel width k >= 1 and input time length
\* T >= 1 the positional embedding has time length exactly T (the padded
\* convolution gives T + 1 for even k and T for odd k; one trailing step is
\* trimmed for even k, none for odd k), so it can be added to its input.
C20_PosEmbeddingKeepsLength ==
    (call.op = "forward") =>
        LET k   == config.num_conv_pos_embeddings
            pos == Steps(call.ev, "pos_conv_embed")
        IN  /\ call.err # "RuntimeError:shape"
            /\ Len(pos) >= 1 => call.err = ""
            /\ \A i \in 1..Len(pos) :
                  LET T    == pos[i].a
                      conv == T + 2 * (k \div 2) - k + 1
                  IN  /\ T >= 1 /\ pos[i].b = T
                      /\ conv = (IF k % 2 = 0 THEN T + 1 ELSE T)
                      /\ pos[i].b = conv - (IF k % 2 = 0 THEN 1 ELSE 0)

\* C20 witness: an even kernel wider than the input, and the output still
\* has the input's length.
C20_Witness ==
    /\ call.op = "forward" /\ call.err = ""
    /\ config.num_conv_pos_embeddings = 8
    /\ \E i \in 1..Len(call.ev) : call.ev[i] = Ev("pos_conv_embed", 3, 3)

====
